---- MODULE Spec2Model ----
(***************************************************************************)
(* A model of neverthrow's Result type (src/src/neverthrow/result.py) and  *)
(* of the client programs that exercise it (src/tests/test_monad_laws.py). *)
(*                                                                         *)
(* Python objects have identity: every Ok / Err instance is a slot of      *)
(* `heap`, and a reference to it is its index.  An instance is the record  *)
(* of its attributes (Ok has `value`, Err has `error`) plus its class.     *)
(* Payloads are Python values: an int n is [cls |-> "int", id |-> n]       *)
(* (compared by value), an exception object is [cls |-> C, id |-> k] with  *)
(* k its allocation number (compared by identity).                         *)
(*                                                                         *)
(* Every library function is an operator that takes the world w (heap,     *)
(* call log, exception counter) and returns the world after it together    *)
(* with what the call produced: a reference `ref`, a plain value `val`,    *)
(* or a raised exception `raised`.                                         *)
(***************************************************************************)
EXTENDS Integers, Sequences, FiniteSets, TLC

\* Payload values are the ints 0..MaxVal.
MaxVal == 1
\* The client program constructs at most MaxObjs instances by hand.
MaxObjs == 2
\* The longest and_then chain the client program builds.
MaxChain == 3

VARIABLES heap, calls, nexc, pc, last, chain

vars == <<heap, calls, nexc, pc, last, chain>>

----------------------------------------------------------------------------
\* Python values

NoRef == 0
None == [cls |-> "NoneType", id |-> 0]
PyInt(n) == [cls |-> "int", id |-> n]
PyBool(b) == [cls |-> "bool", id |-> IF b THEN 1 ELSE 0]
PyStr(s) == [cls |-> "str", id |-> s]
\* repr(v): the decimal digits of an int, "C()" for an exception of class C.
PyRepr(v) == IF v.cls = "int" THEN ToString(v.id) ELSE v.cls \o "()"
Values == {PyInt(n) : n \in 0..MaxVal}

\* The builtin exception hierarchy the adapters' `except Exception` tests against.
BaseOf(c) == CASE c = "ZeroDivisionError" -> "ArithmeticError"
               [] c = "ArithmeticError" -> "Exception"
               [] c = "ValueError" -> "Exception"
               [] c = "AttributeError" -> "Exception"
               [] c = "Exception" -> "BaseException"
               [] c = "KeyboardInterrupt" -> "BaseException"
               [] c = "SystemExit" -> "BaseException"
               [] c = "CancelledError" -> "BaseException"
               [] OTHER -> "object"

RECURSIVE IsSubclass(_, _)
IsSubclass(c, base) == IF c = base THEN TRUE
                       ELSE IF c = "object" THEN FALSE
                       ELSE IsSubclass(BaseOf(c), base)

\* What a call produced, and the world after it.
Out(w, ref, val, raised) == [heap |-> w.heap, calls |-> w.calls, nexc |-> w.nexc,
                             ref |-> ref, val |-> val, raised |-> raised]

\* `raise C(...)`: a fresh exception object of class c propagates.
Raise(w, c) == Out([w EXCEPT !.nexc = @ + 1], NoRef, None, [cls |-> c, id |-> w.nexc + 1])

Raised(o) == o.raised # None

----------------------------------------------------------------------------
\* Constructors

Ok(w, value) == Out([w EXCEPT !.heap = Append(@, [cls |-> "Ok", value |-> value])],
                    Len(w.heap) + 1, None, None)

Err(w, error) == Out([w EXCEPT !.heap = Append(@, [cls |-> "Err", error |-> error])],
                     Len(w.heap) + 1, None, None)

\* Faulty pure: builds the wrong variant.
Mutpure(w, value) == Err(w, value)
pure(w, value) == Ok(w, value)

\* Attribute read `obj.name`: AttributeError when the instance has no such attribute.
\* Faulty read: a missing attribute reads as None instead of raising.
MutGetAttr(w, self, name) == IF name \in DOMAIN w.heap[self]
                             THEN Out(w, NoRef, w.heap[self][name], None)
                             ELSE Out(w, NoRef, None, None)
GetAttr(w, self, name) == IF name \in DOMAIN w.heap[self]
                          THEN Out(w, NoRef, w.heap[self][name], None)
                          ELSE Raise(w, "AttributeError")

----------------------------------------------------------------------------
\* Caller-supplied callables.
\*   kind "tab":  an instrumented function given by its table; on x it does
\*                tab[x]: return Ok(v), return Err(v), return v, or raise.
\*   kind "pure": the library's pure.
\*   kind "bind": the lambda  x -> f(x).and_then(g)  of the associativity tests.

Does(do, v) == [do |-> do, v |-> v]
ResultSpecs == {Does(d, v) : d \in {"Ok", "Err"}, v \in Values}
ValueSpecs == {Does("ret", v) : v \in Values}
RaiseSpecs == {Does("raise", [cls |-> "ValueError", id |-> 0])}

Tab(name, t) == [kind |-> "tab", name |-> name, tab |-> t]
Pure == [kind |-> "pure", name |-> "pure"]
Bind(f, g) == [kind |-> "bind", name |-> "lambda", f |-> f, g |-> g]

\* Functions that return a Result on every input.
ResultFns(name) == {Tab(name, t) : t \in [Values -> ResultSpecs]}
\* Functions that return a Result or raise.
BindFns(name) == {Tab(name, t) : t \in [Values -> ResultSpecs \cup RaiseSpecs]}
\* Functions that return a plain value or raise.
ValueFns(name) == {Tab(name, t) : t \in [Values -> ValueSpecs \cup RaiseSpecs]}

\* The instrumentation: every invocation of a "tab" callable is logged with
\* its argument and with what it produced.
Logged(o, name, x) == [o EXCEPT !.calls = Append(@, [fn |-> name, arg |-> x, ref |-> o.ref,
                                                     val |-> o.val, raised |-> o.raised])]

RunSpec(w, s) == CASE s.do = "Ok" -> Ok(w, s.v)
                   [] s.do = "Err" -> Err(w, s.v)
                   [] s.do = "ret" -> Out(w, NoRef, s.v, None)
                   [] OTHER -> Raise(w, s.v.cls)

RECURSIVE Apply(_, _, _)
RECURSIVE and_then(_, _, _)

\* Faulty Ok.and_then: returns the receiver without calling func.
MutOk_and_then(w, self, func) == Out(w, self, None, None)
Ok_and_then(w, self, func) == Apply(w, func, w.heap[self].value)

\* Faulty Err.and_then: calls the function on the error payload,
MutErr_and_then(w, self, _func) == Apply(w, _func, w.heap[self].error)
\* or rewraps the error payload as a success.
MutErr_and_then_Ok(w, self, _func) == Ok(w, w.heap[self].error)
Err_and_then(w, self, _func) == Out(w, self, None, None)

and_then(w, self, func) == IF w.heap[self].cls = "Ok" THEN Ok_and_then(w, self, func)
                           ELSE Err_and_then(w, self, func)

\* func(x)
Apply(w, func, x) == CASE func.kind = "tab" -> Logged(RunSpec(w, func.tab[x]), func.name, x)
                       [] func.kind = "pure" -> pure(w, x)
                       [] OTHER -> LET r == Apply(w, func.f, x)
                                   IN IF Raised(r) THEN r ELSE and_then(r, r.ref, func.g)

----------------------------------------------------------------------------
\* The other methods of Ok and Err, and the dispatch on the receiver's class.

IsOk(w, self) == w.heap[self].cls = "Ok"

Ok___repr__(w, self) == Out(w, NoRef, PyStr("Ok(" \o PyRepr(w.heap[self].value) \o ")"), None)
Err___repr__(w, self) == Out(w, NoRef, PyStr("Err(" \o PyRepr(w.heap[self].error) \o ")"), None)

Ok_is_ok(w, self) == Out(w, NoRef, PyBool(TRUE), None)
Ok_is_err(w, self) == Out(w, NoRef, PyBool(FALSE), None)
Err_is_ok(w, self) == Out(w, NoRef, PyBool(FALSE), None)
Err_is_err(w, self) == Out(w, NoRef, PyBool(TRUE), None)

\* Faulty Ok.map: wraps func's value in the wrong variant.
MutOk_map(w, self, func) == LET r == Apply(w, func, w.heap[self].value)
                            IN IF Raised(r) THEN r ELSE Err(r, r.val)
Ok_map(w, self, func) == LET r == Apply(w, func, w.heap[self].value)
                         IN IF Raised(r) THEN r ELSE Ok(r, r.val)

Ok___or__(w, self, func) == Ok_map(w, self, func)

Ok_map_err(w, self, _func) == Out(w, self, None, None)

Ok_or_else(w, self, _func) == Out(w, self, None, None)

Ok_unwrap_or(w, self, _default) == Out(w, NoRef, w.heap[self].value, None)

Ok_unwrap_or_else(w, self, _func) == Out(w, NoRef, w.heap[self].value, None)

\* Faulty Ok.inspect: returns func's value wrapped, as map does.
MutOk_inspect(w, self, func) == Ok_map(w, self, func)
Ok_inspect(w, self, func) == LET r == Apply(w, func, w.heap[self].value)
                             IN IF Raised(r) THEN r ELSE Out(r, self, None, None)

Ok_inspect_err(w, self, _func) == Out(w, self, None, None)

Err_map(w, self, _func) == Out(w, self, None, None)

Err___or__(w, self, _func) == Out(w, self, None, None)

Err_map_err(w, self, func) == LET r == Apply(w, func, w.heap[self].error)
                              IN IF Raised(r) THEN r ELSE Err(r, r.val)

Err_or_else(w, self, func) == Apply(w, func, w.heap[self].error)

Err_unwrap_or(w, self, default) == Out(w, NoRef, default, None)

Err_unwrap_or_else(w, self, func) == Apply(w, func, w.heap[self].error)

Err_inspect(w, self, _func) == Out(w, self, None, None)

Err_inspect_err(w, self, func) == LET r == Apply(w, func, w.heap[self].error)
                                  IN IF Raised(r) THEN r ELSE Out(r, self, None, None)

\* self.<method>(arg): arg is a callable, or the default of unwrap_or.
Method(w, op, self, arg) ==
    IF IsOk(w, self)
    THEN CASE op = "and_then" -> Ok_and_then(w, self, arg)
           [] op = "map" -> Ok_map(w, self, arg)
           [] op = "__or__" -> Ok___or__(w, self, arg)
           [] op = "map_err" -> Ok_map_err(w, self, arg)
           [] op = "or_else" -> Ok_or_else(w, self, arg)
           [] op = "unwrap_or" -> Ok_unwrap_or(w, self, arg)
           [] op = "unwrap_or_else" -> Ok_unwrap_or_else(w, self, arg)
           [] op = "inspect" -> Ok_inspect(w, self, arg)
           [] op = "inspect_err" -> Ok_inspect_err(w, self, arg)
           [] op = "is_ok" -> Ok_is_ok(w, self)
           [] op = "is_err" -> Ok_is_err(w, self)
           [] op = "__repr__" -> Ok___repr__(w, self)
    ELSE CASE op = "and_then" -> Err_and_then(w, self, arg)
           [] op = "map" -> Err_map(w, self, arg)
           [] op = "__or__" -> Err___or__(w, self, arg)
           [] op = "map_err" -> Err_map_err(w, self, arg)
           [] op = "or_else" -> Err_or_else(w, self, arg)
           [] op = "unwrap_or" -> Err_unwrap_or(w, self, arg)
           [] op = "unwrap_or_else" -> Err_unwrap_or_else(w, self, arg)
           [] op = "inspect" -> Err_inspect(w, self, arg)
           [] op = "inspect_err" -> Err_inspect_err(w, self, arg)
           [] op = "is_ok" -> Err_is_ok(w, self)
           [] op = "is_err" -> Err_is_err(w, self)
           [] op = "__repr__" -> Err___repr__(w, self)

\* The module-level predicates call the method.
is_ok(w, result) == Method(w, "is_ok", result, None)
is_err(w, result) == Method(w, "is_err", result, None)

\* a == b on two instances: neither class defines __eq__, so the comparison is
\* object's, which is identity.
Eq(w, a, b) == Out(w, NoRef, PyBool(a = b), None)

----------------------------------------------------------------------------
\* The exception adapters.

\* What the wrapped callable may do: return a value, or raise one of these.
RaiseClasses == {"ZeroDivisionError", "ValueError", "KeyboardInterrupt", "SystemExit",
                 "CancelledError"}
WrapSpecs == ValueSpecs \cup {Does("raise", [cls |-> c, id |-> 0]) : c \in RaiseClasses}
WrapFns(name) == {Tab(name, t) : t \in [Values -> WrapSpecs]}

\* `except Exception as e` matches e when its class derives from Exception.
\* Faulty handlers: `except BaseException`, and `except ValueError`.
MutExceptBaseException(e) == IsSubclass(e.cls, "BaseException")
MutExceptValueError(e) == IsSubclass(e.cls, "ValueError")
ExceptException(e) == IsSubclass(e.cls, "Exception")

\* try: return Ok(<r>)  except Exception as e: return Err(e)
\* where r is what evaluating func(*args) (wrap), or awaiting it (wrap_async), gave.
TryOk(r) == IF ~Raised(r) THEN Ok(r, r.val)
            ELSE IF ExceptException(r.raised) THEN Err(r, r.raised)
            ELSE r

\* wrap(func)(args)
wrap(w, func, args) == TryOk(Apply(w, func, args))

\* wrap_async(func)(args), up to the suspension in `await func(*args)`:
\* func is called and hands back its awaitable.
wrap_async_call(w, func_name, args) == Logged(Out(w, NoRef, None, None), func_name, args)

\* ... and from the resumption on: the awaitable completed as s says (the
\* completion is logged as the pseudo-call "await").
wrap_async_resume(w, s) == TryOk(Logged(RunSpec(w, s), "await", None))

----------------------------------------------------------------------------
\* The client program.

W == [heap |-> heap, calls |-> calls, nexc |-> nexc]
Refs == 1..Len(heap)

Commit(o) == /\ heap' = o.heap
             /\ calls' = o.calls
             /\ nexc' = o.nexc

\* The statement just executed: the operation, its receiver and argument, what it
\* produced, and the heap it started from.
Stmt(op, self, other, arg, o) == [op |-> op, self |-> self, other |-> other, arg |-> arg,
                                  ref |-> o.ref, val |-> o.val, raised |-> o.raised,
                                  heap0 |-> heap]

Init == /\ heap = <<>>
        /\ calls = <<>>
        /\ nexc = 0
        /\ pc = "start"
        /\ chain = <<>>
        /\ last = [op |-> "none", self |-> NoRef, other |-> NoRef, arg |-> None,
                   ref |-> NoRef, val |-> None, raised |-> None, heap0 |-> <<>>]

\* Ok(v) / Err(e) written by hand.
NewOk == /\ pc \in {"start", "objs"}
         /\ Len(heap) < MaxObjs
         /\ \E v \in Values :
              LET o == Ok(W, v)
              IN Commit(o) /\ last' = Stmt("Ok", NoRef, NoRef, v, o)
         /\ pc' = "objs"
         /\ UNCHANGED chain

NewErr == /\ pc \in {"start", "objs"}
          /\ Len(heap) < MaxObjs
          /\ \E e \in Values :
               LET o == Err(W, e)
               IN Commit(o) /\ last' = Stmt("Err", NoRef, NoRef, e, o)
          /\ pc' = "objs"
          /\ UNCHANGED chain

\* A statement m.<op>(f): its effect on the world, and the record of it.
Run(op, self, o) == Commit(o) /\ last' = Stmt(op, self, NoRef, None, o)

\* m.<op>(f) on an instance built before, one action per method.
DoAndThen == /\ pc = "objs"
             /\ \E self \in Refs, f \in BindFns("f") :
                  Run("and_then", self, Method(W, "and_then", self, f))
             /\ pc' = "done"
             /\ UNCHANGED chain

DoOrElse == /\ pc = "objs"
            /\ \E self \in Refs, f \in BindFns("f") :
                 Run("or_else", self, Method(W, "or_else", self, f))
            /\ pc' = "done"
            /\ UNCHANGED chain

DoMap == /\ pc = "objs"
         /\ \E self \in Refs, f \in ValueFns("f") :
              Run("map", self, Method(W, "map", self, f))
         /\ pc' = "done"
         /\ UNCHANGED chain

DoOr == /\ pc = "objs"
        /\ \E self \in Refs, f \in ValueFns("f") :
             Run("__or__", self, Method(W, "__or__", self, f))
        /\ pc' = "done"
        /\ UNCHANGED chain

DoMapErr == /\ pc = "objs"
            /\ \E self \in Refs, f \in ValueFns("f") :
                 Run("map_err", self, Method(W, "map_err", self, f))
            /\ pc' = "done"
            /\ UNCHANGED chain

DoUnwrapOrElse == /\ pc = "objs"
                  /\ \E self \in Refs, f \in ValueFns("f") :
                       Run("unwrap_or_else", self, Method(W, "unwrap_or_else", self, f))
                  /\ pc' = "done"
                  /\ UNCHANGED chain

DoInspect == /\ pc = "objs"
             /\ \E self \in Refs, f \in ValueFns("f") :
                  Run("inspect", self, Method(W, "inspect", self, f))
             /\ pc' = "done"
             /\ UNCHANGED chain

DoInspectErr == /\ pc = "objs"
                /\ \E self \in Refs, f \in ValueFns("f") :
                     Run("inspect_err", self, Method(W, "inspect_err", self, f))
                /\ pc' = "done"
                /\ UNCHANGED chain

DoRepr == /\ pc = "objs"
          /\ \E self \in Refs, f \in {None} :
               Run("__repr__", self, Method(W, "__repr__", self, f))
          /\ pc' = "done"
          /\ UNCHANGED chain

\* is_ok(m) / is_err(m)
DoIsOk == /\ pc = "objs"
          /\ \E self \in Refs :
               LET o == is_ok(W, self)
               IN Commit(o) /\ last' = Stmt("is_ok", self, NoRef, None, o)
          /\ pc' = "done"
          /\ UNCHANGED chain

DoIsErr == /\ pc = "objs"
           /\ \E self \in Refs :
                LET o == is_err(W, self)
                IN Commit(o) /\ last' = Stmt("is_err", self, NoRef, None, o)
           /\ pc' = "done"
           /\ UNCHANGED chain

DoUnwrapOr == /\ pc = "objs"
              /\ \E self \in Refs, d \in Values :
                   LET o == Method(W, "unwrap_or", self, d)
                   IN Commit(o) /\ last' = Stmt("unwrap_or", self, NoRef, d, o)
              /\ pc' = "done"
              /\ UNCHANGED chain

\* m.value / m.error read directly, as the tests do after narrowing.
DoGetValue == /\ pc = "objs"
              /\ \E self \in Refs :
                   LET o == GetAttr(W, self, "value")
                   IN Commit(o) /\ last' = Stmt("value", self, NoRef, None, o)
              /\ pc' = "done"
              /\ UNCHANGED chain

DoGetError == /\ pc = "objs"
              /\ \E self \in Refs :
                   LET o == GetAttr(W, self, "error")
                   IN Commit(o) /\ last' = Stmt("error", self, NoRef, None, o)
              /\ pc' = "done"
              /\ UNCHANGED chain

\* a == b
DoEq == /\ pc = "objs"
        /\ \E a \in Refs, b \in Refs :
             LET o == Eq(W, a, b)
             IN Commit(o) /\ last' = Stmt("eq", a, b, None, o)
        /\ pc' = "done"
        /\ UNCHANGED chain

\* tag(v)
MakeResult(w, cls, v) == IF cls = "Ok" THEN Ok(w, v) ELSE Err(w, v)

\* left = pure(a).and_then(f); right = f(a)
test_left_identity == /\ pc = "start"
                      /\ \E a \in Values, f \in ResultFns("f") :
                           LET m == pure(W, a)
                               left == and_then(m, m.ref, f)
                               right == Apply(left, f, a)
                           IN /\ Commit(right)
                              /\ last' = Stmt("left_identity", m.ref, right.ref, a, left)
                      /\ pc' = "done"
                      /\ UNCHANGED chain

\* m = Ok(v) | Err(e); it = m.and_then(pure)
test_right_identity == /\ pc = "start"
                       /\ \E cls \in {"Ok", "Err"}, v \in Values :
                            LET m == MakeResult(W, cls, v)
                                it == and_then(m, m.ref, Pure)
                            IN /\ Commit(it)
                               /\ last' = Stmt("right_identity", m.ref, NoRef, v, it)
                       /\ pc' = "done"
                       /\ UNCHANGED chain

\* left = m.and_then(f).and_then(g); right = m.and_then(lambda x: f(x).and_then(g))
test_associativity == /\ pc = "start"
                      /\ \E cls \in {"Ok", "Err"}, v \in Values,
                            f \in ResultFns("f"), g \in ResultFns("g") :
                           LET m == MakeResult(W, cls, v)
                               mf == and_then(m, m.ref, f)
                               left == and_then(mf, mf.ref, g)
                               right == and_then(left, m.ref, Bind(f, g))
                           IN /\ Commit(right)
                              /\ last' = Stmt("associativity", m.ref, right.ref, v, left)
                      /\ pc' = "done"
                      /\ UNCHANGED chain

\* it = <start>.and_then(f1).and_then(f2)...: the start of the chain,
ChainStart == /\ pc = "start"
              /\ \E cls \in {"Ok", "Err"}, v \in Values :
                   LET o == MakeResult(W, cls, v)
                   IN Commit(o) /\ last' = Stmt(cls, NoRef, NoRef, v, o)
              /\ pc' = "chain"
              /\ UNCHANGED chain

\* the receiver of the next and_then of the chain,
ChainCur == IF chain = <<>> THEN 1 ELSE chain[Len(chain)].ref

\* and its next and_then; the k-th function of the chain is logged as "k".
ChainStep == /\ pc = "chain"
             /\ Len(chain) < MaxChain
             /\ \E f \in ResultFns(ToString(Len(chain) + 1)) :
                  LET o == and_then(W, ChainCur, f)
                  IN /\ Commit(o)
                     /\ last' = Stmt("and_then", ChainCur, NoRef, None, o)
                     /\ chain' = Append(chain, [self |-> ChainCur, ref |-> o.ref])
             /\ pc' = "chain"

\* wrap(func)(args)
DoWrap == /\ pc = "start"
          /\ \E func \in WrapFns("func"), args \in Values :
               LET o == wrap(W, func, args)
               IN Commit(o) /\ last' = Stmt("wrap", NoRef, NoRef, args, o)
          /\ pc' = "done"
          /\ UNCHANGED chain

\* await wrap_async(func)(args): func(*args) hands back an awaitable and the
\* wrapper suspends on it,
AsyncCall == /\ pc = "start"
             /\ \E args \in Values :
                  LET o == wrap_async_call(W, "func", args)
                  IN Commit(o) /\ last' = Stmt("wrap_async", NoRef, NoRef, args, o)
             /\ pc' = "awaiting"
             /\ UNCHANGED chain

\* or func(*args) raises before handing back an awaitable,
AsyncCallRaises == /\ pc = "start"
                   /\ \E args \in Values, func \in {Tab("func", [x \in Values |-> s]) :
                                                    s \in WrapSpecs \ ValueSpecs} :
                        LET o == TryOk(Apply(W, func, args))
                        IN Commit(o) /\ last' = Stmt("wrap_async", NoRef, NoRef, args, o)
                   /\ pc' = "done"
                   /\ UNCHANGED chain

\* and the wrapper resumes when the awaitable completes with a value or raises
\* (a cancelled task resumes with CancelledError).
AsyncResume == /\ pc = "awaiting"
               /\ \E s \in WrapSpecs :
                    LET o == wrap_async_resume(W, s)
                    IN Commit(o) /\ last' = Stmt("wrap_async", NoRef, NoRef, last.arg, o)
               /\ pc' = "done"
               /\ UNCHANGED chain

Next == \/ NewOk \/ NewErr
        \/ DoAndThen \/ DoOrElse \/ DoMap \/ DoOr \/ DoMapErr
        \/ DoUnwrapOr \/ DoUnwrapOrElse \/ DoInspect \/ DoInspectErr
        \/ DoIsOk \/ DoIsErr \/ DoRepr \/ DoGetValue \/ DoGetError \/ DoEq
        \/ test_left_identity \/ test_right_identity \/ test_associativity
        \/ ChainStart \/ ChainStep
        \/ DoWrap \/ AsyncCall \/ AsyncCallRaises \/ AsyncResume

Spec == Init /\ [][Next]_vars

----------------------------------------------------------------------------
\* Properties

\* Structural comparison: same variant and same payload.
Payload(h, r) == IF h[r].cls = "Ok" THEN h[r].value ELSE h[r].error
SameResult(a, b) == heap[a].cls = heap[b].cls /\ Payload(heap, a) = Payload(heap, b)
IsOkOf(r, v) == heap[r].cls = "Ok" /\ heap[r].value = v
IsErrOf(r, e) == heap[r].cls = "Err" /\ heap[r].error = e

\* C1 (left identity): pure(a).and_then(f) has the variant and the payload of
\* f(a), and and_then invoked f exactly once, with a: the log holds that call
\* and then the test's own direct call f(a), nothing else.
C1_LeftIdentity == last.op = "left_identity" =>
                     /\ SameResult(last.ref, last.other)
                     /\ Len(calls) = 2
                     /\ calls[1].fn = "f" /\ calls[1].arg = last.arg
                     /\ calls[1].ref = last.ref
                     /\ calls[2].ref = last.other

C1_Witness == /\ last.op = "left_identity"
              /\ heap[last.ref].cls = "Err"
              /\ last.ref # last.other

\* C2 (right identity): m.and_then(pure) has the variant and the payload of m,
\* for m an Ok and for m an Err.
C2_RightIdentity == last.op = "right_identity" => SameResult(last.ref, last.self)

C2_Witness == /\ last.op = "right_identity"
              /\ heap[last.self].cls = "Ok"
              /\ last.ref # last.self

\* C3 (associativity): m.and_then(f).and_then(g) has the variant and the payload
\* of m.and_then(x -> f(x).and_then(g)), whichever of m, f, g yields the Err.
C3_Associativity == last.op = "associativity" => SameResult(last.ref, last.other)

C3_Witness == /\ last.op = "associativity"
              /\ Len(calls) = 4
              /\ heap[last.ref].cls = "Err"

\* The results along the chain: the start, then what each and_then returned.
ChainRef(k) == IF k = 0 THEN 1 ELSE chain[k].ref
ErrAt == {k \in 0..Len(chain) : heap[ChainRef(k)].cls = "Err"}
FirstErr == CHOOSE k \in ErrAt : \A j \in ErrAt : k <= j
Invoked == IF ErrAt = {} THEN Len(chain) ELSE FirstErr

\* C4 (short circuit): in a chain of and_then calls the functions invoked are
\* exactly those up to the step that yields the first Err, each once, in order
\* and each with the payload before it; every later function is not invoked, and
\* the chain ends in an Err holding that first error payload.
C4_ShortCircuit == pc = "chain" =>
                     /\ Len(calls) = Invoked
                     /\ \A k \in 1..Invoked :
                          /\ calls[k].fn = ToString(k)
                          /\ calls[k].arg = heap[ChainRef(k - 1)].value
                          /\ calls[k].ref = ChainRef(k)
                     /\ ErrAt # {} => IsErrOf(ChainRef(Len(chain)), heap[ChainRef(FirstErr)].error)

C4_Witness == /\ pc = "chain"
              /\ Len(chain) = 3
              /\ ErrAt # {}
              /\ FirstErr = 1

\* The adapters' runs that have returned or raised, and what the wrapped
\* callable did: the last log entry is its call (wrap) or its awaitable's
\* completion (wrap_async).
WrapDone == pc = "done" /\ last.op \in {"wrap", "wrap_async"}
FuncCalls == {i \in DOMAIN calls : calls[i].fn = "func"}
FuncOutcome == calls[Len(calls)]

\* C5: one call of the wrapper (awaited, for wrap_async) invokes func exactly
\* once, with the wrapper's arguments; if func returns (completes with) x the
\* wrapper returns Ok(x); if func raises an exception (an instance of Exception)
\* the wrapper raises nothing and returns Err(e), e the very object raised.
C5_WrapConverts == WrapDone =>
                     /\ Cardinality(FuncCalls) = 1
                     /\ calls[1].fn = "func" /\ calls[1].arg = last.arg
                     /\ FuncOutcome.raised = None =>
                          /\ last.raised = None
                          /\ IsOkOf(last.ref, FuncOutcome.val)
                     /\ (FuncOutcome.raised # None /\ IsSubclass(FuncOutcome.raised.cls, "Exception")) =>
                          /\ last.raised = None
                          /\ IsErrOf(last.ref, FuncOutcome.raised)

C5_Witness == /\ WrapDone
              /\ last.op = "wrap_async"
              /\ Len(calls) = 2
              /\ FuncOutcome.raised # None
              /\ FuncOutcome.raised.cls = "ZeroDivisionError"
              /\ last.ref # NoRef

\* C6: a == b on two instances holds exactly when they have the same variant
\* and equal payloads.
C6_StructuralEquality == last.op = "eq" =>
                           ((last.val = PyBool(TRUE)) <=> SameResult(last.self, last.other))

\* An operation raised on its own behalf: it raised, and no callable it invoked did.
OwnRaise == last.raised # None /\ \A i \in DOMAIN calls : calls[i].raised = None

\* C7 as stated: reading the success payload off an Err raises, and nothing
\* else raises on its own behalf.
C7_OnlyValueRaises == /\ (last.op = "value" /\ heap[last.self].cls = "Err") => OwnRaise
                      /\ OwnRaise => (last.op = "value" /\ heap[last.self].cls = "Err")

\* C7 as amended: reading the success payload off an Err raises AttributeError,
\* always; so does reading the error payload off an Ok; no other operation
\* raises on its own behalf.
C7_OnlyPayloadReadsRaise == /\ OwnRaise <=> \/ last.op = "value" /\ heap[last.self].cls = "Err"
                                            \/ last.op = "error" /\ heap[last.self].cls = "Ok"
                            /\ OwnRaise => last.raised.cls = "AttributeError"

C7_Witness == /\ last.op = "value"
              /\ heap[last.self].cls = "Err"
              /\ last.raised.cls = "AttributeError"

\* C8: a signal raised by the wrapped callable that is no Exception (SystemExit,
\* KeyboardInterrupt, CancelledError) leaves the wrapper as it is, and no Err
\* (no Result at all) is produced.
C8_SignalsPropagate == (WrapDone /\ FuncOutcome.raised # None
                          /\ ~IsSubclass(FuncOutcome.raised.cls, "Exception")) =>
                         /\ last.raised = FuncOutcome.raised
                         /\ last.ref = NoRef
                         /\ heap = <<>>

C8_Witness == /\ WrapDone
              /\ last.op = "wrap_async"
              /\ Len(calls) = 2
              /\ last.raised.cls = "CancelledError"

\* The operation left the receiver as it was and returned it.
ReturnsSelf == /\ last.ref = last.self
               /\ heap = last.heap0

\* The operation invoked its callable exactly once, with payload x.
CalledOnceWith(x) == Len(calls) = 1 /\ calls[1].fn = "f" /\ calls[1].arg = x

\* C9: inspect on an Ok and inspect_err on an Err invoke f exactly once with the
\* payload and, whatever f returns, return the receiver unchanged; inspect on an
\* Err and inspect_err on an Ok invoke nothing and return the receiver unchanged.
C9_Inspect == last.op \in {"inspect", "inspect_err"} =>
                IF (last.op = "inspect") <=> (last.heap0[last.self].cls = "Ok")
                THEN /\ CalledOnceWith(Payload(last.heap0, last.self))
                     /\ calls[1].raised = None => ReturnsSelf
                ELSE calls = <<>> /\ ReturnsSelf

C9_Witness == /\ last.op = "inspect"
              /\ heap[last.self].cls = "Ok"
              /\ Len(calls) = 1
              /\ calls[1].val # None
              /\ calls[1].val # heap[last.self].value
              /\ last.ref = last.self

\* C10: map on an Err and map_err on an Ok invoke nothing and return the receiver
\* unchanged; Ok(v).map(f) invokes f once, with v, and is Ok(f(v)); Err(e).map_err(f)
\* invokes f once, with e, and is Err(f(e)).
C10_Map == last.op \in {"map", "map_err"} =>
             IF (last.op = "map") <=> (last.heap0[last.self].cls = "Ok")
             THEN /\ CalledOnceWith(Payload(last.heap0, last.self))
                  /\ calls[1].raised = None =>
                       /\ heap[last.ref].cls = last.heap0[last.self].cls
                       /\ Payload(heap, last.ref) = calls[1].val
                       /\ heap[last.self] = last.heap0[last.self]
             ELSE calls = <<>> /\ ReturnsSelf

C10_Witness == /\ last.op = "map"
               /\ heap[last.self].cls = "Ok"
               /\ Len(calls) = 1
               /\ last.ref # NoRef
               /\ heap[last.ref].value # heap[last.self].value

====
